---- MODULE Spec2Model ----
(***************************************************************************)
(* Model of the two hyper-parameter search scripts of autoencoder_hulm:    *)
(*                                                                         *)
(*   trials/control_trials.py        pick_gpu, then an optuna study with a *)
(*                                   HyperbandPruner whose trials report   *)
(*                                   through MyPrunerCallback              *)
(*   trials/trials_eval_callback.py  evalLogsCallback writing one JSON     *)
(*                                   file per evaluation and per trial     *)
(*                                                                         *)
(* The calls the scripts make into optuna (study.optimize, trial.report,   *)
(* trial.should_prune, study.best_trial) and into the transformers Trainer *)
(* (callback dispatch of train() and evaluate()) are modelled with the     *)
(* behaviour those calls have for the arguments the scripts pass; every    *)
(* argument the scripts leave out has the library's default.               *)
(***************************************************************************)
EXTENDS Integers, Sequences, FiniteSets, TLC

(***************************************************************************)
(* Bounds.  The scripts run 50 trials of 40 epochs; the model scales both. *)
(***************************************************************************)
NTrials == 2
NumEpochs == 3
MaxGpus == 2
MaxMetric == 2
LedgerTrials == 2
RecordChunks == 2
MaxRuns == 2

(***************************************************************************)
(* Program constants.                                                      *)
(***************************************************************************)
IdleMemory == 48676
BusyMemory == 1024
min_resource == 1
reduction_factor == 3
bootstrap_count == 0
NaN == -1

None == -2

direction == "minimize"

Trials == 0 .. (NTrials - 1)
Metrics == 1 .. MaxMetric
Values == Metrics \cup {NaN}
Terminal == {"Pruned", "Completed", "Failed"}

VARIABLES
    mainpc,        \* position of the script: pick_gpu, optimize, done, error, aborted
    cuda,          \* os.environ["CUDA_VISIBLE_DEVICES"], None when unset
    status,        \* trial number -> Pending, Running, Pruned, Completed, Failed
    bracket,       \* trial number -> Hyperband bracket of the trial
    history,       \* trial number -> intermediate values, a sequence of <<step, value>>
    reported,      \* trial number -> the steps passed to trial.report, in call order
    rungs,         \* trial number -> values stored under completed_rung_0, 1, ...
    final_metric,  \* trial number -> value of a Completed trial, None otherwise
    best_trial,    \* number of the study's best trial, None when there is none
    files,         \* <<trial, key>> -> content of <key>_results.json
    wpc,           \* position of the evalLogsCallback script
    wtrial,        \* trial the evalLogsCallback script is running
    wrun,          \* how many times the evalLogsCallback script was started
    wopen          \* key of the file save_metrics has open, NoKey when none

studyvars == <<mainpc, cuda, status, bracket, history, reported, rungs,
               final_metric, best_trial>>
ledgervars == <<files, wpc, wtrial, wrun, wopen>>
vars == <<mainpc, cuda, status, bracket, history, reported, rungs,
          final_metric, best_trial, files, wpc, wtrial, wrun, wopen>>

(***************************************************************************)
(* Arithmetic helpers.                                                     *)
(***************************************************************************)
RECURSIVE Pow(_, _)
Pow(b, e) == IF e = 0 THEN 1 ELSE b * Pow(b, e - 1)

RECURSIVE FloorLog(_, _)
FloorLog(b, x) == IF x < b THEN 0 ELSE 1 + FloorLog(b, x \div b)

RECURSIVE Insert(_, _)
Insert(x, s) ==
    IF s = <<>> THEN <<x>>
    ELSE IF x <= Head(s) THEN <<x>> \o s
    ELSE <<Head(s)>> \o Insert(x, Tail(s))

RECURSIVE Sort(_)
Sort(s) == IF s = <<>> THEN <<>> ELSE Insert(Head(s), Sort(Tail(s)))

(***************************************************************************)
(* pick_gpu: the first GPU whose free memory is exactly 48676 is put in    *)
(* CUDA_VISIBLE_DEVICES; when there is none the loop ends and the function *)
(* returns with the variable unset.                                        *)
(***************************************************************************)
GpuLists == UNION {[1 .. n -> {IdleMemory, BusyMemory}] : n \in 0 .. MaxGpus}

RECURSIVE FirstIdle(_, _)
FirstIdle(memory_free_values, j) ==
    IF j > Len(memory_free_values) THEN None
    ELSE IF memory_free_values[j] = IdleMemory THEN j - 1
    ELSE FirstIdle(memory_free_values, j + 1)

pick_gpu ==
    /\ mainpc = "pick_gpu"
    /\ \E memory_free_values \in GpuLists :
          cuda' = FirstIdle(memory_free_values, 1)
    /\ mainpc' = "optimize"
    /\ UNCHANGED <<status, bracket, history, reported, rungs, final_metric,
                   best_trial>>
    /\ UNCHANGED ledgervars

(***************************************************************************)
(* HyperbandPruner(max_resource = num_train_epochs).                       *)
(***************************************************************************)
max_resource == NumEpochs

n_brackets == FloorLog(reduction_factor, max_resource \div min_resource) + 1

Brackets == 0 .. (n_brackets - 1)

\* step at which a trial of bracket b is compared at its rung k
RungPromotionStep(b, rung) == min_resource * Pow(reduction_factor, b + rung)

\* the rung values of the trials of bracket b that have a value at the rung
RECURSIVE CompetingFrom(_, _, _)
CompetingFrom(n, b, rung) ==
    IF n = NTrials THEN <<>>
    ELSE (IF status[n] # "Pending" /\ bracket[n] = b /\ Len(rungs[n]) > rung
          THEN <<rungs[n][rung + 1]>> ELSE <<>>)
         \o CompetingFrom(n + 1, b, rung)

GetCompetingValues(t, value, rung) ==
    CompetingFrom(0, bracket[t], rung) \o <<value>>

\* the comparison with the threshold value is strict, so a value never
\* passes a threshold that is the value itself
IsTrialPromotable_strict(value, competing_values) ==
    LET idx0 == (Len(competing_values) \div reduction_factor) - 1
        promotable_idx == IF idx0 = -1 THEN 0 ELSE idx0
        sorted == Sort(competing_values)
    IN value < sorted[promotable_idx + 1]

\* the index -1 of fewer than reduction_factor values is used as it is, which
\* selects the last of the sorted values
IsTrialPromotable_last(value, competing_values) ==
    LET idx0 == (Len(competing_values) \div reduction_factor) - 1
        sorted == Sort(competing_values)
    IN IF idx0 = -1
       THEN value <= sorted[Len(sorted)]
       ELSE value <= sorted[idx0 + 1]

IsTrialPromotable(value, competing_values) ==
    LET idx0 == (Len(competing_values) \div reduction_factor) - 1
        promotable_idx == IF idx0 = -1 THEN 0 ELSE idx0
        sorted == Sort(competing_values)
    IN IF direction = "maximize"
       THEN value >= sorted[Len(sorted) - promotable_idx]
       ELSE value <= sorted[promotable_idx + 1]

\* trial.should_prune() for trial t whose last step is `step` with value
\* `value`; myrungs are the rung values t has stored so far.  The result is
\* the decision and the rung values of t afterwards.
RECURSIVE Prune(_, _, _, _)
Prune(t, step, value, myrungs) ==
    LET rung == Len(myrungs) IN
    IF step < RungPromotionStep(bracket[t], rung)
    THEN [prune |-> FALSE, rungs |-> myrungs]
    ELSE IF value = NaN
    THEN [prune |-> TRUE, rungs |-> myrungs]
    ELSE LET competing == GetCompetingValues(t, value, rung)
             stored == Append(myrungs, value)
         IN IF Len(competing) <= bootstrap_count
            THEN [prune |-> TRUE, rungs |-> stored]
            ELSE IF ~ IsTrialPromotable(value, competing)
            THEN [prune |-> TRUE, rungs |-> stored]
            ELSE Prune(t, step, value, stored)

(***************************************************************************)
(* trial.report(value, step): a step that already has a value is ignored.  *)
(***************************************************************************)
Steps(h) == {h[i][1] : i \in 1 .. Len(h)}

Report(h, value, step) ==
    IF step \in Steps(h) THEN h ELSE Append(h, <<step, value>>)

LastStep(h) == h[Len(h)][1]
LastValue(h) == h[Len(h)][2]

(***************************************************************************)
(* study.optimize(func, n_trials): one trial at a time.                    *)
(***************************************************************************)
NoneRunning == \A t \in Trials : status[t] # "Running"

\* the callback does not raise, so a pruned trial goes on training
IsActive_noraise(t) == status[t] \in {"Running", "Pruned"}

\* the objective of trial t is executing: raising TrialPruned in the callback
\* ends it, as does returning from it or any other exception
IsActive(t) == status[t] = "Running"

NextTrialNumber == Cardinality({t \in Trials : status[t] # "Pending"})

\* a trial that equals the best value replaces the best trial
UpdateBest_ties(t, value) ==
    IF best_trial = None THEN t
    ELSE IF final_metric[best_trial] >= value THEN t ELSE best_trial

\* the storage keeps the first trial that reached the best value
UpdateBest(t, value) ==
    IF best_trial = None THEN t
    ELSE IF direction = "maximize"
         THEN (IF final_metric[best_trial] < value THEN t ELSE best_trial)
         ELSE (IF final_metric[best_trial] > value THEN t ELSE best_trial)

\* study.ask(): the next trial is created Running; its bracket is a hash of
\* the study name and the trial number
StartTrial ==
    /\ mainpc = "optimize"
    /\ NoneRunning
    /\ NextTrialNumber < NTrials
    /\ \E b \in Brackets :
          bracket' = [bracket EXCEPT ![NextTrialNumber] = b]
    /\ status' = [status EXCEPT ![NextTrialNumber] = "Running"]
    /\ UNCHANGED <<mainpc, cuda, history, reported, rungs, final_metric,
                   best_trial>>
    /\ UNCHANGED ledgervars

\* MyPrunerCallback.on_evaluate for the evaluation that ends an epoch of
\* trainer.train(); a TrialPruned raised here ends the trial Pruned
OnEvaluate(t, eval_loss, epoch) ==
    LET h == Report(history[t], eval_loss, epoch)
        d == Prune(t, LastStep(h), LastValue(h), rungs[t])
    IN /\ history' = [history EXCEPT ![t] = h]
       /\ reported' = [reported EXCEPT ![t] = Append(@, epoch)]
       /\ rungs' = [rungs EXCEPT ![t] = d.rungs]
       /\ status' = [status EXCEPT ![t] = IF d.prune THEN "Pruned" ELSE @]

TrainEpoch ==
    /\ mainpc = "optimize"
    /\ \E t \in Trials, eval_loss \in Values :
          /\ IsActive(t)
          /\ Len(reported[t]) < NumEpochs
          /\ OnEvaluate(t, eval_loss, Len(reported[t]) + 1)
    /\ UNCHANGED <<mainpc, cuda, bracket, final_metric, best_trial>>
    /\ UNCHANGED ledgervars

\* trainer.evaluate() after trainer.train() returned: the callback runs once
\* more with state.epoch still at the last epoch, then the objective returns
\* the loss; a NaN return value makes the trial Failed without an exception
FinalEvaluate ==
    /\ mainpc = "optimize"
    /\ \E t \in Trials, eval_loss \in Values :
          /\ IsActive(t)
          /\ Len(reported[t]) = NumEpochs
          /\ LET h == Report(history[t], eval_loss, NumEpochs)
                 d == Prune(t, LastStep(h), LastValue(h), rungs[t])
             IN /\ history' = [history EXCEPT ![t] = h]
                /\ reported' = [reported EXCEPT ![t] = Append(@, NumEpochs)]
                /\ rungs' = [rungs EXCEPT ![t] = d.rungs]
                /\ IF d.prune
                   THEN /\ status' = [status EXCEPT ![t] = "Pruned"]
                        /\ UNCHANGED <<final_metric, best_trial>>
                   ELSE IF eval_loss = NaN
                   THEN /\ status' = [status EXCEPT ![t] = "Failed"]
                        /\ UNCHANGED <<final_metric, best_trial>>
                   ELSE /\ status' = [status EXCEPT ![t] = "Completed"]
                        /\ final_metric' = [final_metric EXCEPT ![t] = eval_loss]
                        /\ best_trial' = UpdateBest(t, eval_loss)
    /\ UNCHANGED <<mainpc, cuda, bracket>>
    /\ UNCHANGED ledgervars

\* any other exception of trainer.train() or trainer.evaluate(): optimize is
\* called without catch, so the trial is set Failed and the exception leaves
\* study.optimize, run_trials and the script
TrainFails ==
    /\ mainpc = "optimize"
    /\ \E t \in Trials :
          /\ IsActive(t)
          /\ status' = [status EXCEPT ![t] = "Failed"]
    /\ mainpc' = "aborted"
    /\ UNCHANGED <<cuda, bracket, history, reported, rungs, final_metric,
                   best_trial>>
    /\ UNCHANGED ledgervars

\* print(study.best_trial) after optimize returned; it raises when no trial
\* is Completed
FinishStudy ==
    /\ mainpc = "optimize"
    /\ NoneRunning
    /\ NextTrialNumber = NTrials
    /\ mainpc' = IF best_trial = None THEN "error" ELSE "done"
    /\ UNCHANGED <<cuda, status, bracket, history, reported, rungs,
                   final_metric, best_trial>>
    /\ UNCHANGED ledgervars

(***************************************************************************)
(* trials_eval_callback.py: evalLogsCallback.  Each trial of the search    *)
(* trains one epoch; on_save writes eval_<epoch>_results.json and          *)
(* on_train_end writes final_results.json into the directory of the trial. *)
(* save_metrics opens the path for writing, which creates or truncates the *)
(* file, and json.dump then writes the record to it piece by piece.  The   *)
(* process can be killed between any two of these steps; starting the      *)
(* script again writes the same paths.                                     *)
(***************************************************************************)
Splits == {"eval_1.0", "final"}
Keys == (0 .. (LedgerTrials - 1)) \X Splits
Absent == <<>>
NoKey == <<>>

\* a file is a pair <<run that wrote it, pieces of the record on disk>>
Complete(f) == f # Absent /\ f[2] = RecordChunks
Partial(f) == f # Absent /\ f[2] < RecordChunks

StartScript ==
    /\ wpc = "start"
    /\ wrun < MaxRuns
    /\ wrun' = wrun + 1
    /\ wtrial' = 0
    /\ wpc' = "train"
    /\ UNCHANGED <<files, wopen>>
    /\ UNCHANGED studyvars

\* evalLogsCallback.on_evaluate keeps a copy of the metrics
LogEvaluate ==
    /\ wpc = "train"
    /\ wpc' = "on_save"
    /\ UNCHANGED <<files, wtrial, wrun, wopen>>
    /\ UNCHANGED studyvars

SplitAt(pc) == IF pc = "on_save" THEN "eval_1.0" ELSE "final"

\* save_metrics: open(path, "w")
OpenFile ==
    /\ wpc \in {"on_save", "on_train_end"}
    /\ wopen = NoKey
    /\ wopen' = <<wtrial, SplitAt(wpc)>>
    /\ files' = [files EXCEPT ![<<wtrial, SplitAt(wpc)>>] = <<wrun, 0>>]
    /\ UNCHANGED <<wpc, wtrial, wrun>>
    /\ UNCHANGED studyvars

\* save_metrics: json.dump(metrics, f), one piece of the record reaches disk
DumpChunk ==
    /\ wopen # NoKey
    /\ files[wopen][2] < RecordChunks
    /\ files' = [files EXCEPT ![wopen] = <<@[1], @[2] + 1>>]
    /\ UNCHANGED <<wpc, wtrial, wrun, wopen>>
    /\ UNCHANGED studyvars

\* save_metrics: the with block ends; on_save is followed by on_train_end,
\* on_train_end by the next trial of the search
CloseFile ==
    /\ wopen # NoKey
    /\ files[wopen][2] = RecordChunks
    /\ wopen' = NoKey
    /\ IF wpc = "on_save"
       THEN /\ wpc' = "on_train_end"
            /\ UNCHANGED wtrial
       ELSE IF wtrial + 1 < LedgerTrials
       THEN /\ wpc' = "train"
            /\ wtrial' = wtrial + 1
       ELSE /\ wpc' = "finished"
            /\ UNCHANGED wtrial
    /\ UNCHANGED <<files, wrun>>
    /\ UNCHANGED studyvars

\* the process is killed
Crash ==
    /\ wpc \in {"train", "on_save", "on_train_end"}
    /\ wpc' = "crashed"
    /\ wopen' = NoKey
    /\ UNCHANGED <<files, wtrial, wrun>>
    /\ UNCHANGED studyvars

\* the script is started again
Rerun ==
    /\ wpc \in {"crashed", "finished"}
    /\ wrun < MaxRuns
    /\ wpc' = "start"
    /\ UNCHANGED <<files, wtrial, wrun, wopen>>
    /\ UNCHANGED studyvars


Init ==
    /\ mainpc = "pick_gpu"
    /\ cuda = None
    /\ status = [t \in Trials |-> "Pending"]
    /\ bracket = [t \in Trials |-> 0]
    /\ history = [t \in Trials |-> <<>>]
    /\ reported = [t \in Trials |-> <<>>]
    /\ rungs = [t \in Trials |-> <<>>]
    /\ final_metric = [t \in Trials |-> None]
    /\ best_trial = None
    /\ files = [k \in Keys |-> Absent]
    /\ wpc = "start"
    /\ wtrial = 0
    /\ wrun = 0
    /\ wopen = NoKey

Next ==
    \/ pick_gpu
    \/ StartTrial
    \/ TrainEpoch
    \/ FinalEvaluate
    \/ TrainFails
    \/ FinishStudy

Spec == Init /\ [][Next]_vars

NextLedger ==
    \/ StartScript
    \/ LogEvaluate
    \/ OpenFile
    \/ DumpChunk
    \/ CloseFile
    \/ Crash
    \/ Rerun

SpecLedger == Init /\ [][NextLedger]_vars

(***************************************************************************)
(* Properties of control_trials.py, checked under Spec.                    *)
(***************************************************************************)
StrictlyIncreasing(s) == \A i \in 1 .. (Len(s) - 1) : s[i] < s[i + 1]

ValueAt(h, c) == h[CHOOSE i \in 1 .. Len(h) : h[i][1] = c][2]

Max(a, b) == IF a >= b THEN a ELSE b

\* the checkpoints 1, r, r^2, ... up to the maximum resource
RungCheckpoints ==
    {min_resource * Pow(reduction_factor, k) : k \in 0 .. (n_brackets - 1)}

\* trial t made a call of trial.report in this step
Reports(t) == status[t] = "Running" /\ reported'[t] # reported[t]

\* the other trials of t's bracket that have a value at t's current rung
RungPeers(t) ==
    {u \in Trials \ {t} : /\ status[u] # "Pending"
                          /\ bracket[u] = bracket[t]
                          /\ Len(rungs[u]) > Len(rungs[t])}

\* C1 as stated: a report never yields prune while fewer than 4 trials have
\* reported at that checkpoint (the reporting trial included).  Stated for
\* the metrics that are numbers.
C1_GracePeriodOfFour ==
    [][\A t \in Trials :
          (/\ status[t] = "Running" /\ status'[t] = "Pruned"
           /\ LastValue(history'[t]) # NaN)
          => Cardinality({u \in Trials :
                 LastStep(history'[t]) \in Steps(history'[u])}) >= 4]_vars

\* C1 amended: the pruner has no minimum number of trials per rung; a trial
\* whose metric is not NaN is never pruned at a rung at which no other
\* trial of its Hyperband bracket has a value, so the first trial to report
\* at a rung with a metric that is not NaN is never pruned there.
C1_FirstAtRungNotPruned ==
    [][\A t \in Trials :
          (status[t] = "Running" /\ status'[t] = "Pruned")
          => \/ LastValue(history'[t]) = NaN
             \/ RungPeers(t) # {}]_vars

\* a trial continues after it stored a value at a rung at which no trial of
\* its bracket has one, while a trial of another bracket reported the same
\* checkpoint with a better metric
C1_Witness ==
    \E t \in Trials, u \in Trials :
        /\ status[t] = "Running" /\ status[u] = "Completed"
        /\ bracket[u] # bracket[t]
        /\ Len(rungs[t]) = 1
        /\ LastStep(history[t]) \in Steps(history[u])
        /\ ValueAt(history[u], LastStep(history[t])) # NaN
        /\ ValueAt(history[u], LastStep(history[t])) < rungs[t][1]

C3_FailureIsolation ==
    \A t \in Trials : status[t] = "Failed" => mainpc # "aborted"

\* C4: the best trial is none while no trial is Completed, and otherwise a
\* Completed trial with the least final_metric, the lowest numbered of those.
C4_BestTrial ==
    LET completed == {t \in Trials : status[t] = "Completed"}
    IN IF completed = {}
       THEN best_trial = None
       ELSE /\ best_trial \in completed
            /\ \A u \in completed :
                  /\ final_metric[best_trial] <= final_metric[u]
                  /\ final_metric[u] = final_metric[best_trial]
                     => best_trial <= u

\* two Completed trials have the same final_metric and the earlier one is
\* the best trial
C4_Witness ==
    \E t \in Trials, u \in Trials :
        /\ t < u
        /\ status[t] = "Completed" /\ status[u] = "Completed"
        /\ final_metric[t] = final_metric[u]
        /\ best_trial = t

\* C5 as stated: no trial starts Running unless an idle resource was claimed.
C5_RunningHoldsResource ==
    \A t \in Trials : status[t] # "Pending" => cuda # None

\* C6: a trial moves Pending -> Running -> one of Pruned, Completed, Failed,
\* and a terminal trial keeps its status, history, reports and final_metric.
C6_TrialLifecycle ==
    [][\A t \in Trials :
          /\ status[t] = "Pending" => status'[t] \in {"Pending", "Running"}
          /\ status[t] = "Running" => status'[t] \in {"Running"} \cup Terminal
          /\ status[t] \in Terminal
             => /\ status'[t] = status[t]
                /\ history'[t] = history[t]
                /\ reported'[t] = reported[t]
                /\ final_metric'[t] = final_metric[t]]_vars

\* a trial was pruned after it reported, and a later trial is reporting
C6_Witness ==
    \E t \in Trials, u \in Trials :
        /\ t < u
        /\ status[t] = "Pruned" /\ history[t] # <<>>
        /\ status[u] = "Running" /\ history[u] # <<>>

\* C7 as stated: the rung state holds no metric of a Failed trial.
C7_FailedExcludedFromRungs ==
    \A t \in Trials : status[t] = "Failed" => rungs[t] = <<>>

\* C9 as stated: the checkpoints passed to trial.report by a trial are
\* strictly increasing, the evaluation after training included.
C9_ReportsStrictlyIncreasing ==
    \A t \in Trials : StrictlyIncreasing(reported[t])

\* C10 as stated: when the study loop has stopped, n_trials trials are
\* terminal and none is Pending or Running.
C10_StopsAfterAllTrials ==
    mainpc \in {"done", "error", "aborted"}
    => \A t \in Trials : status[t] \in Terminal

(***************************************************************************)
(* Property of trials_eval_callback.py, checked under SpecLedger.          *)
(***************************************************************************)
\* C8 as stated: after a crash every record on disk is absent or complete.
C8_AtomicWrites ==
    wpc = "crashed" => \A k \in Keys : files[k] = Absent \/ Complete(files[k])

====
